---- MODULE Spec2Model ----
(***************************************************************************)
(* Daily-code / bearer-token lifecycle and workflow dispatch of the        *)
(* AI-workflow backend.  The repository holds two variants of the login    *)
(* flow: the FastAPI service (backend/app.py, JSON files under data/) and  *)
(* the Flask service (backend/auth.py, SQL tables of backend/models.py).   *)
(* Both are modelled, each with its own specification:                      *)
(*   Spec      backend/app.py: per-user daily codes, token file, audit log *)
(*   SpecTok   token stores on their own: save_access_token / verify_token *)
(*             of backend/app.py and SessionManager of database/models.py  *)
(*   SpecAuth  backend/auth.py: daily_codes table, threaded login          *)
(*   SpecWf    workflows/base.py: WorkflowManager                          *)
(*   SpecCalls backend/workflows.py: the record-keeping BaseWorkflow.execute *)
(*   SpecRun   the two dispatchers side by side, no re-registration        *)
(*   SpecVal   BaseWorkflow.validate_inputs as a function of its inputs    *)
(*   SpecPoem  PoemWorkflow: from the answer of the LLM to the outputs      *)
(*   SpecOut   the outputs of the handlers against their output schemas    *)
(*   SpecRate  utils/security.py: check_rate_limit / record_attempt        *)
(* Time is counted in ticks of 12 hours, so that 24 hours are Hours24      *)
(* ticks and a calendar day is the same number of ticks.                   *)
(***************************************************************************)
EXTENDS Integers, Sequences, FiniteSets, TLC

VARIABLES
    now,            \* wall clock, in ticks
    users,          \* config/users.yaml as loaded by Settings
    daily_codes,    \* data/daily_codes.json: username -> record or NoCode
    active_tokens,  \* data/active_tokens.json: set of token records
    activity_logs,  \* activity_logs table rows, oldest first
    genWake,        \* tick at which daily_code_generator wakes next
    nextToken,      \* tokens minted so far + 1 (token_urlsafe values are fresh)
    pc,             \* per in-flight login request: "idle" or "save"
    req,            \* per in-flight login request: its local variables
    resp,           \* the last response handed to a caller in the current tick
    consumed,       \* history: <<username, code, generated_at>> of accepted logins
    owner,          \* history: token -> username of the login that minted it
    mailbox,        \* history: username -> the code last mailed to the user
    user_sessions,  \* user_sessions table: set of session rows
    code_rows,      \* daily_codes table of the Flask service: set of rows
    system_logs,    \* system_logs table rows, oldest first
    apc,            \* per Flask worker thread: "idle", "insert" or "commit"
    areq,           \* per Flask worker thread: its local variables
    uses,           \* history: row id -> number of logins the row let in
    workflows,      \* WorkflowManager._workflows: name -> handler
    execution_stats,     \* WorkflowManager._execution_stats: name -> stats
    workflow_executions, \* workflow_executions table rows, oldest first
    workflow_calls, \* workflow_calls table of the Flask service: set of rows
    handler_calls,  \* history: number of handler invocations so far
    wpc,            \* per execution slot: "idle" or "running"
    wreq,           \* per execution slot: the locals of the running execution
    storage,        \* check_rate_limit._storage: identifier -> list of timestamps
    minute,         \* the clock of the rate limiter, in minutes
    recorded        \* history: identifier -> times of all its record_attempt calls

appVars == <<users, daily_codes, activity_logs, genWake, nextToken, pc, req,
             consumed, owner, mailbox>>
tokVars == <<user_sessions>>
authVars == <<code_rows, system_logs, apc, areq, uses>>

wfVars == <<workflows, execution_stats, workflow_executions, workflow_calls,
            handler_calls, wpc, wreq>>

rateVars == <<storage, minute, recorded>>

vars == <<now, active_tokens, resp, appVars, tokVars, authVars, wfVars, rateVars>>

notApp == <<tokVars, authVars, wfVars, rateVars>>
notTok == <<appVars, authVars, wfVars, rateVars>>
notAuth == <<active_tokens, appVars, tokVars, wfVars, rateVars>>
notWf == <<now, active_tokens, appVars, tokVars, code_rows, apc, areq, uses,
           rateVars>>
notRate == <<now, active_tokens, appVars, tokVars, authVars, wfVars>>

(***************************************************************************)
(* Bounds of the model.                                                    *)
(***************************************************************************)
MaxTime == 2
MaxLog == 2

(***************************************************************************)
(* Program constants.                                                      *)
(***************************************************************************)
Hours24 == 2

Usernames == {"admin", "user1"}
UserOrder == <<"admin", "user1">>
Identities == Usernames \cup {"mallory"}
Codes == {"123456", "654321"}
Procs == {1, 2}
Threads == {1, 2}

NoCode == [code |-> "", generated_at |-> -1]
NoUser == "<none>"
NoReq == [username |-> NoUser, code |-> "", token |-> 0, tokens |-> {},
          gen_at |-> -1, reused |-> FALSE]
NoAuthReq == [kind |-> "none", username |-> NoUser, code |-> "", row |-> 0, date |-> -1]
Slots == {1, 2}
WorkflowNames == {"poem", "text_analyzer"}
DefaultHandler == [poem |-> "PoemWorkflow", text_analyzer |-> "TextAnalyzerWorkflow"]
ZeroStats == [total_executions |-> 0, successful_executions |-> 0,
              total_execution_time |-> 0, average_execution_time |-> 0]
NoRun == [variant |-> "none", name |-> "", handler |-> "", call |-> 0]
NoResp == [kind |-> "none", user |-> NoUser, code |-> "", token |-> 0,
           status |-> 0, result |-> NoUser, gen_at |-> -1,
           reused |-> FALSE]

Date(t) == t \div Hours24

(***************************************************************************)
(* Settings.get_users / Settings.validate_user                             *)
(***************************************************************************)
get_users == users

validate_user(username) ==
    IF username \notin DOMAIN get_users THEN FALSE
    ELSE get_users[username].enabled

(***************************************************************************)
(* verify_token: the token must be in the file and younger than 24 hours.  *)
(***************************************************************************)
verify_token_inclusive(tokens, token, t) ==
    IF \E r \in tokens : r.token = token /\ t - r.issued_at <= Hours24
    THEN (CHOOSE r \in tokens : r.token = token).username
    ELSE NoUser

verify_token(tokens, token, t) ==
    IF \E r \in tokens : r.token = token /\ t - r.issued_at < Hours24
    THEN (CHOOSE r \in tokens : r.token = token).username
    ELSE NoUser

(***************************************************************************)
(* has_today_valid_codes: every configured user has a code generated today *)
(* and not more than 24 hours ago.                                         *)
(***************************************************************************)
has_today_valid_codes(codes, t) ==
    /\ \E u \in Usernames : codes[u] # NoCode
    /\ \A u \in DOMAIN get_users :
          /\ codes[u] # NoCode
          /\ ~( Date(codes[u].generated_at) # Date(t)
                \/ t - codes[u].generated_at > Hours24 )

(***************************************************************************)
(* verify_daily_code: known user, a stored code not older than 24 hours,   *)
(* exact string match.                                                     *)
(***************************************************************************)
verify_daily_code(codes, username, code, t) ==
    IF username \notin DOMAIN get_users THEN FALSE
    ELSE IF codes[username] = NoCode THEN FALSE
    ELSE IF t - codes[username].generated_at > Hours24 THEN FALSE
    ELSE codes[username].code = code

(***************************************************************************)
(* save_access_token up to the file write: add the token, drop the tokens  *)
(* older than 24 hours.                                                    *)
(***************************************************************************)
TokensToWrite_not_added(tokens, token, username, t) ==
    {r \in tokens : ~(t - r.issued_at > Hours24)}

TokensToWrite(tokens, token, username, t) ==
    LET added == {r \in tokens : r.token # token}
                 \cup {[token |-> token, username |-> username, issued_at |-> t]}
    IN  {r \in added : ~(t - r.issued_at > Hours24)}

(***************************************************************************)
(* log_user_activity: one row per call.                                    *)
(***************************************************************************)
LogRow(username, activity_type, success) ==
    [username |-> username, activity_type |-> activity_type, success |-> success]

log_user_activity(logs, username, activity_type, success) ==
    Append(logs, LogRow(username, activity_type, success))

(***************************************************************************)
(* generate_and_send_daily_codes: a new random code for every user, mailed *)
(* one user after the other, then the file is rewritten.  `sent` is the    *)
(* number of mails that went out before one raised (all of them when none  *)
(* did); `written` tells whether the file write succeeded.                 *)
(***************************************************************************)
GenOk(sent, written) == sent = Len(UserOrder) /\ written

GenCodes(codes, fresh, sent, written, t) ==
    IF GenOk(sent, written)
    THEN [u \in Usernames |-> [code |-> fresh[u], generated_at |-> t]]
    ELSE codes

\* send_daily_code_email inside the loop: the first `sent` users of the
\* configuration got their new code by mail.
GenMails(mails, fresh, sent, t) ==
    [u \in Usernames |->
        IF \E i \in 1..sent : UserOrder[i] = u
        THEN [code |-> fresh[u], generated_at |-> t]
        ELSE mails[u]]

NextWake(t) == (Date(t) + 1) * Hours24

(***************************************************************************)
(* Initial state: a fresh data directory after lifespan's startup check    *)
(* (check_and_generate_today_codes), which either generated today's codes  *)
(* or failed and left none.  users.yaml holds an enabled admin and a       *)
(* disabled user.                                                          *)
(***************************************************************************)
InitApp ==
    /\ now = 0
    /\ users = [u \in Usernames |->
                  [role |-> IF u = "admin" THEN "admin" ELSE "user",
                   enabled |-> u = "admin"]]
    /\ \E fresh \in [Usernames -> Codes], sent \in 0..Len(UserOrder) :
          /\ daily_codes = GenCodes([u \in Usernames |-> NoCode], fresh, sent, TRUE, 0)
          /\ mailbox = GenMails([u \in Usernames |-> NoCode], fresh, sent, 0)
    /\ active_tokens = {}
    /\ activity_logs = <<>>
    /\ genWake = NextWake(0)
    /\ nextToken = 1
    /\ pc = [p \in Procs |-> "idle"]
    /\ req = [p \in Procs |-> NoReq]
    /\ resp = NoResp
    /\ consumed = {}
    /\ owner = <<>>
    /\ user_sessions = {}
    /\ code_rows = {}
    /\ system_logs = <<>>
    /\ apc = [t \in Threads |-> "idle"]
    /\ areq = [t \in Threads |-> NoAuthReq]
    /\ uses = <<>>
    /\ workflows = [n \in WorkflowNames |-> DefaultHandler[n]]
    /\ execution_stats = [n \in WorkflowNames |-> ZeroStats]
    /\ workflow_executions = <<>>
    /\ workflow_calls = {}
    /\ handler_calls = 0
    /\ wpc = [e \in Slots |-> "idle"]
    /\ wreq = [e \in Slots |-> NoRun]
    /\ storage = <<>>
    /\ minute = 0
    /\ recorded = <<>>

(***************************************************************************)
(* The clock.  The generator task's timer fires on time, so the clock does *)
(* not pass its wake-up while it is due; a suspended file write completes  *)
(* within the tick it was started in.                                      *)
(***************************************************************************)
Tick ==
    /\ now < MaxTime
    /\ now + 1 <= genWake
    /\ \A p \in Procs : pc[p] = "idle"
    /\ now' = now + 1
    /\ resp' = NoResp
    /\ UNCHANGED <<active_tokens, appVars, notApp>>

(***************************************************************************)
(* daily_code_generator: one turn of its loop, after the sleep.            *)
(***************************************************************************)
daily_code_generator ==
    /\ now >= genWake
    /\ IF has_today_valid_codes(daily_codes, now)
       THEN UNCHANGED <<daily_codes, mailbox>>
       ELSE \E fresh \in [Usernames -> Codes], sent \in 0..Len(UserOrder),
               written \in BOOLEAN :
               /\ daily_codes' = GenCodes(daily_codes, fresh, sent, written, now)
               /\ mailbox' = GenMails(mailbox, fresh, sent, now)
    /\ genWake' = NextWake(now)
    /\ UNCHANGED <<now, users, active_tokens, activity_logs, nextToken, pc, req,
                   resp, consumed, owner, notApp>>

(***************************************************************************)
(* POST /api/auth/login, first part: verify_daily_code; on rejection the   *)
(* attempt is logged and answered 401; otherwise the token is minted and   *)
(* save_access_token reads the token file and prepares the new content.    *)
(* The request is then suspended until its file write.                     *)
(***************************************************************************)
InFlight == Cardinality({q \in Procs : pc[q] = "save"})

LoginResp(username, code, token, status, genAt, reused) ==
    [kind |-> "login", user |-> username, code |-> code, token |-> token,
     status |-> status, result |-> NoUser, gen_at |-> genAt,
     reused |-> reused]

LoginBegin(p, username, code) ==
    /\ pc[p] = "idle"
    /\ \A q \in Procs : pc[q] = "idle" => p <= q
    /\ Len(activity_logs) + InFlight < MaxLog
    /\ IF verify_daily_code(daily_codes, username, code, now)
       THEN /\ pc' = [pc EXCEPT ![p] = "save"]
            /\ req' = [req EXCEPT ![p] =
                  [username |-> username, code |-> code, token |-> nextToken,
                   tokens |-> TokensToWrite(active_tokens, nextToken, username, now),
                   gen_at |-> daily_codes[username].generated_at,
                   reused |-> <<username, code, daily_codes[username].generated_at>>
                                  \in consumed]]
            /\ nextToken' = nextToken + 1
            /\ owner' = owner @@ (nextToken :> username)
            /\ UNCHANGED <<activity_logs, resp>>
       ELSE /\ activity_logs' = log_user_activity(activity_logs, username, "login", FALSE)
            /\ resp' = LoginResp(username, code, 0, 401, -1, FALSE)
            /\ UNCHANGED <<pc, req, nextToken, owner>>
    /\ UNCHANGED <<now, users, daily_codes, active_tokens, genWake, consumed,
                   mailbox, notApp>>

(***************************************************************************)
(* POST /api/auth/login, second part: the token file is rewritten with the *)
(* content prepared before the suspension, the attempt is logged and the   *)
(* token returned.  When the write raises, the attempt is logged as failed *)
(* and answered 500.                                                       *)
(***************************************************************************)
LoginFinish(p, written) ==
    /\ pc[p] = "save"
    /\ IF written
       THEN /\ active_tokens' = req[p].tokens
            /\ activity_logs' =
                  log_user_activity(activity_logs, req[p].username, "login", TRUE)
            /\ resp' = LoginResp(req[p].username, req[p].code, req[p].token, 200,
                                 req[p].gen_at, req[p].reused)
            /\ consumed' = consumed \cup
                  {<<req[p].username, req[p].code, req[p].gen_at>>}
       ELSE /\ activity_logs' =
                  log_user_activity(activity_logs, req[p].username, "login", FALSE)
            /\ resp' = LoginResp(req[p].username, req[p].code, 0, 500,
                                 req[p].gen_at, req[p].reused)
            /\ UNCHANGED <<active_tokens, consumed>>
    /\ pc' = [pc EXCEPT ![p] = "idle"]
    /\ req' = [req EXCEPT ![p] = NoReq]
    /\ UNCHANGED <<now, users, daily_codes, genWake, nextToken, owner, mailbox,
                   notApp>>

(***************************************************************************)
(* get_current_admin and POST /api/admin/generate-codes: an admin forces   *)
(* the generation of codes; the operation is logged before it runs and     *)
(* once more when it fails.                                                *)
(***************************************************************************)
get_current_admin(token) ==
    LET current_user == verify_token(active_tokens, token, now)
    IN  /\ current_user # NoUser
        /\ current_user \in DOMAIN get_users
        /\ get_users[current_user].role = "admin"
        /\ get_users[current_user].enabled

manual_generate_daily_codes(token, fresh, sent, written) ==
    LET current_admin == verify_token(active_tokens, token, now)
        logged == log_user_activity(activity_logs, current_admin,
                                    "manual_generate_codes", TRUE)
    IN  /\ get_current_admin(token)
        /\ Len(activity_logs) + InFlight + (IF GenOk(sent, written) THEN 1 ELSE 2)
              <= MaxLog
        /\ daily_codes' = GenCodes(daily_codes, fresh, sent, written, now)
        /\ mailbox' = GenMails(mailbox, fresh, sent, now)
        /\ activity_logs' =
              IF GenOk(sent, written) THEN logged
              ELSE log_user_activity(logged, current_admin,
                                     "manual_generate_codes", FALSE)
        /\ resp' = [kind |-> "generate", user |-> current_admin, code |-> "",
                    token |-> token,
                    status |-> IF GenOk(sent, written) THEN 200 ELSE 500,
                    result |-> NoUser, gen_at |-> -1, reused |-> FALSE]
        /\ UNCHANGED <<now, users, active_tokens, genWake, nextToken, pc, req,
                       consumed, owner, notApp>>

Init == InitApp

Login == \E p \in Procs, username \in Identities, code \in Codes :
            LoginBegin(p, username, code)

LoginSave == \E p \in Procs, written \in BOOLEAN : LoginFinish(p, written)

AdminGenerate ==
    \E token \in DOMAIN owner, fresh \in [Usernames -> Codes],
       sent \in 0..Len(UserOrder), written \in BOOLEAN :
       manual_generate_daily_codes(token, fresh, sent, written)

Next ==
    \/ Tick
    \/ daily_code_generator
    \/ Login
    \/ LoginSave
    \/ AdminGenerate

Spec == Init /\ [][Next]_vars

(***************************************************************************)
(*                     The token stores on their own                       *)
(***************************************************************************)
TokenIds == {1, 2}

TokResp(kind, token, result) ==
    [kind |-> kind, user |-> NoUser, code |-> "", token |-> token,
     status |-> IF result = NoUser THEN 401 ELSE 200, result |-> result,
     gen_at |-> -1, reused |-> FALSE]

InitTok ==
    /\ InitApp
    /\ daily_codes = [u \in Usernames |-> NoCode]
    /\ mailbox = [u \in Usernames |-> NoCode]

TokTick ==
    /\ now < MaxTime
    /\ now' = now + 1
    /\ resp' = NoResp
    /\ UNCHANGED <<active_tokens, notTok, tokVars>>

(***************************************************************************)
(* save_access_token(token, username) as one step: read the file, add the  *)
(* token, drop the expired ones, write the file.                           *)
(***************************************************************************)
save_access_token(token, username) ==
    /\ active_tokens' = TokensToWrite(active_tokens, token, username, now)
    /\ resp' = TokResp("save", token, username)
    /\ UNCHANGED <<now, notTok, tokVars>>

(***************************************************************************)
(* get_current_user: a request that presents a bearer token.               *)
(***************************************************************************)
get_current_user(token) ==
    /\ resp' = TokResp("verify", token, verify_token(active_tokens, token, now))
    /\ UNCHANGED <<now, active_tokens, notTok, tokVars>>

(***************************************************************************)
(* SessionManager.  A row of user_sessions is keyed by its token;          *)
(* created_at and last_active default to CURRENT_TIMESTAMP, is_active to   *)
(* TRUE.                                                                   *)
(***************************************************************************)
SessionRow(token, username, t) ==
    [token |-> token, username |-> username, created_at |-> t,
     last_active |-> t, is_active |-> TRUE]

\* INSERT OR REPLACE INTO user_sessions (token, username)
create_session(token, username) ==
    /\ user_sessions' = {r \in user_sessions : r.token # token}
                        \cup {SessionRow(token, username, now)}
    /\ resp' = TokResp("create_session", token, username)
    /\ UNCHANGED <<now, active_tokens, notTok>>

\* WHERE token = ? AND is_active = TRUE AND datetime(created_at, '+1 day') > datetime('now')
SessionValid(r, token, t) ==
    r.token = token /\ r.is_active /\ r.created_at + Hours24 > t

SessionLookup(sessions, token, t) ==
    IF \E r \in sessions : SessionValid(r, token, t)
    THEN (CHOOSE r \in sessions : SessionValid(r, token, t)).username
    ELSE NoUser

touch_and_renew(sessions, token, t) ==
    {IF r.token = token THEN [r EXCEPT !.last_active = t, !.created_at = t] ELSE r :
        r \in sessions}

\* UPDATE user_sessions SET last_active = CURRENT_TIMESTAMP WHERE token = ?
touch(sessions, token, t) ==
    {IF r.token = token THEN [r EXCEPT !.last_active = t] ELSE r : r \in sessions}

validate_session(token) ==
    /\ user_sessions' =
          IF SessionLookup(user_sessions, token, now) # NoUser
          THEN touch(user_sessions, token, now)
          ELSE user_sessions
    /\ resp' = TokResp("validate_session", token,
                       SessionLookup(user_sessions, token, now))
    /\ UNCHANGED <<now, active_tokens, notTok>>

invalidate_session(token) ==
    /\ user_sessions' = {IF r.token = token THEN [r EXCEPT !.is_active = FALSE] ELSE r :
                            r \in user_sessions}
    /\ resp' = TokResp("invalidate_session", token, NoUser)
    /\ UNCHANGED <<now, active_tokens, notTok>>

\* DELETE FROM user_sessions WHERE datetime(created_at, '+1 day') <= datetime('now')
cleanup_expired_sessions ==
    /\ user_sessions' = {r \in user_sessions : ~(r.created_at + Hours24 <= now)}
    /\ resp' = TokResp("cleanup_expired_sessions", 0, NoUser)
    /\ UNCHANGED <<now, active_tokens, notTok>>

SaveToken == \E token \in TokenIds, username \in Usernames :
                save_access_token(token, username)
VerifyToken == \E token \in TokenIds : get_current_user(token)
CreateSession == \E token \in TokenIds, username \in Usernames :
                    create_session(token, username)
ValidateSession == \E token \in TokenIds : validate_session(token)
InvalidateSession == \E token \in TokenIds : invalidate_session(token)

NextTok ==
    \/ TokTick
    \/ SaveToken
    \/ VerifyToken
    \/ CreateSession
    \/ ValidateSession
    \/ InvalidateSession
    \/ cleanup_expired_sessions

SpecTok == InitTok /\ [][NextTok]_vars

(***************************************************************************)
(*                 The Flask service: backend/auth.py                      *)
(* One daily code per date in table daily_codes (column code is unique,    *)
(* column date is not), consumed by the login that presents it.  Requests  *)
(* are served by worker threads, each with its own database session; a     *)
(* thread can be pre-empted between a query and the commit that follows.   *)
(***************************************************************************)
AuthCodes == {"AB12CD34", "EF56GH78"}
Submitted == AuthCodes \cup {"ab12cd34"}
FlaskUsers == [alice |-> [is_active |-> TRUE], bob |-> [is_active |-> FALSE]]

\* str.upper on the submitted codes.
Upper(code) == IF code = "ab12cd34" THEN "AB12CD34" ELSE code

CodeRow(id, code, date) == [id |-> id, code |-> code, date |-> date, is_used |-> FALSE]

\* A response of the Flask service: `error` is the message of the body,
\* `cause` (history) tells which step raised when the answer is 500.
AuthResp(kind, username, code, status, row, error, cause) ==
    [kind |-> kind, user |-> username, code |-> code, status |-> status,
     row |-> row, error |-> error, cause |-> cause]

SysLog(level, username) == [level |-> level, user |-> username]

InitAuth ==
    /\ InitApp
    /\ daily_codes = [u \in Usernames |-> NoCode]
    /\ mailbox = [u \in Usernames |-> NoCode]

AuthTick ==
    /\ now < MaxTime
    /\ \A t \in Threads : apc[t] = "idle"
    /\ now' = now + 1
    /\ resp' = NoResp
    /\ UNCHANGED <<authVars, notAuth>>

(***************************************************************************)
(* DailyCodeService.get_or_create_daily_code, up to the insert: the row of *)
(* today is returned when the query finds one; otherwise a code that no    *)
(* row holds is drawn.                                                     *)
(***************************************************************************)
get_or_create_query(t) ==
    /\ apc[t] = "idle"
    /\ LET today == Date(now)
           found == {r \in code_rows : r.date = today}
       IN  IF found # {}
           THEN /\ \E r \in found :
                     resp' = AuthResp("issue", NoUser, r.code, 200, r.id, "", "")
                /\ UNCHANGED <<apc, areq>>
           ELSE /\ \E code \in AuthCodes :
                     /\ \A r \in code_rows : r.code # code
                     /\ areq' = [areq EXCEPT ![t] =
                                    [NoAuthReq EXCEPT !.kind = "issue",
                                                      !.code = code,
                                                      !.date = today]]
                /\ apc' = [apc EXCEPT ![t] = "insert"]
                /\ UNCHANGED resp
    /\ UNCHANGED <<now, code_rows, system_logs, uses, notAuth>>

(***************************************************************************)
(* get_or_create_daily_code, the insert and its commit; the unique index   *)
(* on code rejects a code that another session inserted meanwhile, and the *)
(* endpoint answers 500.                                                   *)
(***************************************************************************)
get_or_create_commit(t) ==
    /\ apc[t] = "insert"
    /\ LET code == areq[t].code
           id == Cardinality(code_rows) + 1
       IN  IF \E r \in code_rows : r.code = code
           THEN /\ resp' = AuthResp("issue", NoUser, code, 500, 0, "generate_failed",
                                 "insert")
                /\ UNCHANGED code_rows
           ELSE /\ code_rows' = code_rows \cup {CodeRow(id, code, areq[t].date)}
                /\ resp' = AuthResp("issue", NoUser, code, 200, id, "", "")
    /\ apc' = [apc EXCEPT ![t] = "idle"]
    /\ areq' = [areq EXCEPT ![t] = NoAuthReq]
    /\ UNCHANGED <<now, system_logs, uses, notAuth>>

(***************************************************************************)
(* POST /login up to the query of verify_code: the user must exist, be     *)
(* active and give the right password; the code, upper-cased, must match   *)
(* an unused row of today.  A rejection is logged with log_warn and        *)
(* answered 401, with one message for the user or password and another     *)
(* for the code; when log_warn raises, the handler's except clause answers *)
(* 500 instead.                                                            *)
(***************************************************************************)
AuthBusy == Cardinality({t \in Threads : apc[t] = "commit"})

login_query(t, username, password_ok, code, logged) ==
    /\ apc[t] = "idle"
    /\ Len(system_logs) + AuthBusy < MaxLog
    /\ LET known == username \in DOMAIN FlaskUsers /\ FlaskUsers[username].is_active
           match == {r \in code_rows : /\ r.code = Upper(code)
                                       /\ r.date = Date(now)
                                       /\ ~r.is_used}
           error == IF ~known \/ ~password_ok THEN "user_or_password"
                    ELSE "code_wrong_or_used"
       IN  IF ~known \/ ~password_ok \/ match = {}
           THEN /\ IF logged
                   THEN /\ system_logs' = Append(system_logs, SysLog("WARN", username))
                        /\ resp' = AuthResp("flask_login", username, code, 401, 0,
                                            error, "")
                   ELSE /\ resp' = AuthResp("flask_login", username, code, 500, 0,
                                            "login_failed", "log")
                        /\ UNCHANGED system_logs
                /\ UNCHANGED <<apc, areq>>
           ELSE /\ \E r \in match :
                     areq' = [areq EXCEPT ![t] =
                                 [NoAuthReq EXCEPT !.kind = "login",
                                                   !.username = username,
                                                   !.code = code,
                                                   !.row = r.id]]
                /\ apc' = [apc EXCEPT ![t] = "commit"]
                /\ UNCHANGED <<system_logs, resp>>
    /\ UNCHANGED <<now, code_rows, uses, notAuth>>

(***************************************************************************)
(* POST /login from the commit of verify_code on: the row is marked used,  *)
(* last_login is stored, the token is created and the login is logged      *)
(* with log_info.  `failure` names the step after verify_code that raises: *)
(* "none", "last_login" (its commit, or the token's creation) or "log"     *)
(* (log_info); the except clause then answers 500.                         *)
(***************************************************************************)
Failures == {"none", "last_login", "log"}

login_commit(t, failure) ==
    /\ apc[t] = "commit"
    /\ LET id == areq[t].row
       IN  /\ code_rows' = {IF r.id = id THEN [r EXCEPT !.is_used = TRUE] ELSE r :
                               r \in code_rows}
           /\ IF failure = "none"
              THEN /\ system_logs' = Append(system_logs, SysLog("INFO", areq[t].username))
                   /\ resp' = AuthResp("flask_login", areq[t].username, areq[t].code,
                                       200, id, "", "")
                   /\ uses' = IF id \in DOMAIN uses
                              THEN [uses EXCEPT ![id] = @ + 1]
                              ELSE uses @@ (id :> 1)
              ELSE /\ resp' = AuthResp("flask_login", areq[t].username, areq[t].code,
                                       500, id, "login_failed", failure)
                   /\ UNCHANGED <<system_logs, uses>>
    /\ apc' = [apc EXCEPT ![t] = "idle"]
    /\ areq' = [areq EXCEPT ![t] = NoAuthReq]
    /\ UNCHANGED <<now, notAuth>>

IssueCode == \E t \in Threads : get_or_create_query(t)
IssueCodeCommit == \E t \in Threads : get_or_create_commit(t)
FlaskLogin == \E t \in Threads, username \in DOMAIN FlaskUsers \cup {"mallory"},
                 password_ok \in BOOLEAN, code \in Submitted, logged \in BOOLEAN :
                    login_query(t, username, password_ok, code, logged)
FlaskLoginCommit == \E t \in Threads, failure \in Failures : login_commit(t, failure)

NextAuth ==
    \/ AuthTick
    \/ IssueCode
    \/ IssueCodeCommit
    \/ FlaskLogin
    \/ FlaskLoginCommit

SpecAuth == InitAuth /\ [][NextAuth]_vars

(***************************************************************************)
(*       Workflow dispatch: workflows/base.py and backend/workflows.py     *)
(* An input value is modelled by its Python type: "str" (a non-empty       *)
(* string of at most 100 characters), "empty" (the empty string), "long"   *)
(* (a string of more than 100 characters), "int", "bool", "float", "list", *)
(* "dict".  Execution times are whole time units, averages are kept to     *)
(* three decimals.                                                         *)
(***************************************************************************)
MaxExec == 2
MaxCalls == 2

Durations == {1, 3}
Handlers == {"PoemWorkflow", "TextAnalyzerWorkflow"}
InputSets ==
    { <<>>,
      ("theme" :> "str"),
      ("theme" :> "int"),
      ("text" :> "str") }

\* PoemWorkflow.get_input_schema / TextAnalyzerWorkflow.get_input_schema
get_input_schema(handler) ==
    IF handler = "PoemWorkflow"
    THEN [required |-> {"theme"},
          properties |-> [theme |-> "string", style |-> "string",
                          length |-> "string"],
          additionalProperties |-> FALSE]
    ELSE [required |-> {"text"},
          properties |-> [text |-> "string", analysis_type |-> "string",
                          include_details |-> "boolean"],
          additionalProperties |-> FALSE]

\* BaseWorkflow._check_type: isinstance against the mapped Python type; bool
\* is a subclass of int.
check_type(value, expected_type) ==
    CASE expected_type = "string"  -> value \in {"str", "empty", "long"}
      [] expected_type = "integer" -> value \in {"int", "bool"}
      [] expected_type = "number"  -> value \in {"int", "bool", "float"}
      [] expected_type = "boolean" -> value = "bool"
      [] expected_type = "array"   -> value = "list"
      [] expected_type = "object"  -> value = "dict"
      [] OTHER -> TRUE

\* BaseWorkflow.validate_inputs: the required fields are present and every
\* field that the schema declares has the declared type.
validate_inputs(handler, inputs) ==
    LET schema == get_input_schema(handler)
    IN  /\ \A field \in schema.required : field \in DOMAIN inputs
        /\ \A field \in DOMAIN inputs :
              field \in DOMAIN schema.properties
                  => check_type(inputs[field], schema.properties[field])

Quotient(total, n) == (total * 1000) \div n

\* WorkflowManager._update_stats on the stats of one workflow.
update_stats_average_on_success(stats, execution_time, success) ==
    LET total == stats.total_executions + 1
        time == stats.total_execution_time + execution_time
    IN  [total_executions |-> total,
         successful_executions |-> stats.successful_executions + (IF success THEN 1 ELSE 0),
         total_execution_time |-> time,
         average_execution_time |-> IF success THEN Quotient(time, total)
                                    ELSE stats.average_execution_time]

update_stats(stats, execution_time, success) ==
    LET total == stats.total_executions + 1
        time == stats.total_execution_time + execution_time
    IN  [total_executions |-> total,
         successful_executions |-> stats.successful_executions + (IF success THEN 1 ELSE 0),
         total_execution_time |-> time,
         average_execution_time |-> IF total > 0 THEN Quotient(time, total)
                                    ELSE stats.average_execution_time]

WfResp(variant, name, outcome) ==
    [kind |-> "execute", variant |-> variant, name |-> name, outcome |-> outcome]

InitWf ==
    /\ InitApp
    /\ daily_codes = [u \in Usernames |-> NoCode]
    /\ mailbox = [u \in Usernames |-> NoCode]

(***************************************************************************)
(* WorkflowManager.register_workflow / unregister_workflow.                *)
(***************************************************************************)
register_workflow(name, handler) ==
    /\ workflows' = IF name \in DOMAIN workflows
                    THEN [workflows EXCEPT ![name] = handler]
                    ELSE workflows @@ (name :> handler)
    /\ execution_stats' = IF name \in DOMAIN execution_stats
                          THEN [execution_stats EXCEPT ![name] = ZeroStats]
                          ELSE execution_stats @@ (name :> ZeroStats)
    /\ resp' = [kind |-> "register"]
    /\ UNCHANGED <<workflow_executions, workflow_calls, handler_calls, wpc,
                   wreq, system_logs, notWf>>

unregister_workflow(name) ==
    /\ IF name \in DOMAIN workflows
       THEN /\ workflows' = [n \in DOMAIN workflows \ {name} |-> workflows[n]]
            /\ execution_stats' = [n \in DOMAIN execution_stats \ {name} |->
                                      execution_stats[n]]
       ELSE UNCHANGED <<workflows, execution_stats>>
    /\ resp' = [kind |-> "unregister"]
    /\ UNCHANGED <<workflow_executions, workflow_calls, handler_calls, wpc,
                   wreq, system_logs, notWf>>

(***************************************************************************)
(* WorkflowManager.execute_workflow up to the handler call: an unknown     *)
(* name and inputs that fail validation raise ValueError; otherwise the    *)
(* handler is started and the execution waits for it.                      *)
(***************************************************************************)
raise_not_found_counted(name) ==
    /\ resp' = WfResp("manager", name, "not_found")
    /\ handler_calls' = handler_calls + 1
    /\ UNCHANGED <<wpc, wreq>>

raise_not_found(name) ==
    /\ resp' = WfResp("manager", name, "not_found")
    /\ UNCHANGED <<handler_calls, wpc, wreq>>

execute_workflow_start(e, name, inputs) ==
    /\ wpc[e] = "idle"
    /\ \A f \in Slots : wpc[f] = "idle" => e <= f
    /\ IF name \notin DOMAIN workflows
       THEN raise_not_found(name)
       ELSE IF ~validate_inputs(workflows[name], inputs)
       THEN /\ resp' = WfResp("manager", name, "validation_error")
            /\ UNCHANGED <<handler_calls, wpc, wreq>>
       ELSE /\ handler_calls < MaxExec
            /\ handler_calls' = handler_calls + 1
            /\ wpc' = [wpc EXCEPT ![e] = "running"]
            /\ wreq' = [wreq EXCEPT ![e] =
                           [variant |-> "manager", name |-> name,
                            handler |-> workflows[name], call |-> 0]]
            /\ resp' = WfResp("manager", name, "started")
    /\ UNCHANGED <<workflows, execution_stats, workflow_executions,
                   workflow_calls, system_logs, notWf>>

(***************************************************************************)
(* WorkflowManager.execute_workflow after the handler: the stats of the    *)
(* name are updated if it is still registered, and the execution is        *)
(* logged with status success or error (WorkflowLogger.log_execution       *)
(* swallows its own failure); a handler error is raised again.             *)
(***************************************************************************)
ExecutionRow(workflow_type, status) ==
    [workflow_type |-> workflow_type, status |-> status]

execute_workflow_finish(e, success, execution_time, logged) ==
    /\ wpc[e] = "running"
    /\ wreq[e].variant = "manager"
    /\ LET name == wreq[e].name
       IN  /\ execution_stats' =
                  IF name \in DOMAIN execution_stats
                  THEN [execution_stats EXCEPT ![name] =
                           update_stats(@, execution_time, success)]
                  ELSE execution_stats
           /\ workflow_executions' =
                  IF logged
                  THEN Append(workflow_executions,
                              ExecutionRow(name, IF success THEN "success" ELSE "error"))
                  ELSE workflow_executions
           /\ resp' = WfResp("manager", name,
                             IF success THEN "success" ELSE "execution_error")
    /\ wpc' = [wpc EXCEPT ![e] = "idle"]
    /\ wreq' = [wreq EXCEPT ![e] = NoRun]
    /\ UNCHANGED <<workflows, workflow_calls, handler_calls, system_logs, notWf>>

(***************************************************************************)
(* backend/workflows.py.  validate_input of PoetryGeneratorWorkflow and    *)
(* TextSummaryWorkflow: the stripped theme / text must be a non-empty      *)
(* string within the length limit (a value that is not a string raises).   *)
(***************************************************************************)
WORKFLOW_REGISTRY ==
    [poetry_generator |-> "PoetryGeneratorWorkflow",
     text_summary |-> "TextSummaryWorkflow"]

validate_input(workflow, input_data) ==
    LET field == IF workflow = "PoetryGeneratorWorkflow" THEN "theme" ELSE "text"
        value == IF field \in DOMAIN input_data THEN input_data[field] ELSE "empty"
    IN  value = "str"

CallRow(id, workflow_type, status) ==
    [id |-> id, workflow_type |-> workflow_type, status |-> status]

(***************************************************************************)
(* BaseWorkflow.execute up to process(): a pending workflow_calls row is   *)
(* committed first; inputs that fail validate_input turn it into a failed  *)
(* row, an ERROR row is written to system_logs and the caller gets         *)
(* success = False.                                                        *)
(***************************************************************************)
execute_start(e, workflow_type, input_data) ==
    /\ wpc[e] = "idle"
    /\ \A f \in Slots : wpc[f] = "idle" => e <= f
    /\ Cardinality(workflow_calls) < MaxCalls
    /\ LET workflow == WORKFLOW_REGISTRY[workflow_type]
           id == Cardinality(workflow_calls) + 1
       IN  IF ~validate_input(workflow, input_data)
           THEN /\ workflow_calls' = workflow_calls \cup {CallRow(id, workflow, "failed")}
                /\ system_logs' = Append(system_logs, SysLog("ERROR", NoUser))
                /\ resp' = WfResp("flask", workflow, "validation_error")
                /\ UNCHANGED <<handler_calls, wpc, wreq>>
           ELSE /\ handler_calls < MaxExec
                /\ workflow_calls' = workflow_calls \cup {CallRow(id, workflow, "pending")}
                /\ handler_calls' = handler_calls + 1
                /\ wpc' = [wpc EXCEPT ![e] = "running"]
                /\ wreq' = [wreq EXCEPT ![e] =
                               [variant |-> "flask", name |-> workflow_type,
                                handler |-> workflow, call |-> id]]
                /\ resp' = WfResp("flask", workflow, "started")
                /\ UNCHANGED system_logs
    /\ UNCHANGED <<workflows, execution_stats, workflow_executions, notWf>>

(***************************************************************************)
(* BaseWorkflow.execute after process(): the row becomes success, or       *)
(* failed with an ERROR row in system_logs.                                *)
(***************************************************************************)
finalize_every_row(calls, id, status) ==
    {[r EXCEPT !.status = status] : r \in calls}

\* The UPDATE that the commit issues for the workflow_call object: the row
\* with its primary key gets the final status.
finalize(calls, id, status) ==
    {IF r.id = id THEN [r EXCEPT !.status = status] ELSE r : r \in calls}

execute_finish(e, success) ==
    /\ wpc[e] = "running"
    /\ wreq[e].variant = "flask"
    /\ workflow_calls' = finalize(workflow_calls, wreq[e].call,
                                  IF success THEN "success" ELSE "failed")
    /\ system_logs' = IF success THEN system_logs
                      ELSE Append(system_logs, SysLog("ERROR", NoUser))
    /\ resp' = WfResp("flask", wreq[e].handler,
                      IF success THEN "success" ELSE "execution_error")
    /\ wpc' = [wpc EXCEPT ![e] = "idle"]
    /\ wreq' = [wreq EXCEPT ![e] = NoRun]
    /\ UNCHANGED <<workflows, execution_stats, workflow_executions,
                   handler_calls, notWf>>

(***************************************************************************)
(* POST /execute of backend/workflows.py: get_workflow raises ValueError    *)
(* for a type that WORKFLOW_REGISTRY does not hold and the request is       *)
(* answered 400; otherwise the workflow is executed.                        *)
(***************************************************************************)
flask_execute_workflow(e, workflow_type, input_data) ==
    IF workflow_type \notin DOMAIN WORKFLOW_REGISTRY
    THEN /\ resp' = WfResp("flask", workflow_type, "not_found")
         /\ UNCHANGED <<wfVars, system_logs, notWf>>
    ELSE execute_start(e, workflow_type, input_data)

UnknownName == "unknown"

Register == \E name \in WorkflowNames, handler \in Handlers :
                register_workflow(name, handler)
Unregister == \E name \in WorkflowNames : unregister_workflow(name)
ManagerExecute == \E e \in Slots, name \in WorkflowNames \cup {UnknownName},
                     inputs \in InputSets :
                      execute_workflow_start(e, name, inputs)
ManagerFinish == \E e \in Slots, success \in BOOLEAN, execution_time \in Durations,
                    logged \in BOOLEAN :
                     execute_workflow_finish(e, success, execution_time, logged)
FlaskExecute == \E e \in Slots,
                   workflow_type \in DOMAIN WORKFLOW_REGISTRY \cup {UnknownName},
                   input_data \in InputSets :
                    flask_execute_workflow(e, workflow_type, input_data)
FlaskFinish == \E e \in Slots, success \in BOOLEAN : execute_finish(e, success)

NextWf ==
    \/ Register
    \/ Unregister
    \/ ManagerExecute
    \/ ManagerFinish

SpecWf == InitWf /\ [][NextWf]_vars

NextCalls ==
    \/ FlaskExecute
    \/ FlaskFinish

SpecCalls == InitWf /\ [][NextCalls]_vars

(***************************************************************************)
(* Both dispatchers side by side, with the startup registrations fixed.    *)
(***************************************************************************)
NextRun ==
    \/ ManagerExecute
    \/ ManagerFinish
    \/ FlaskExecute
    \/ FlaskFinish

SpecRun == InitWf /\ [][NextRun]_vars

(***************************************************************************)
(*            BaseWorkflow.validate_inputs on its own                      *)
(* The inputs are all the dictionaries over a few field names, two of them *)
(* required by a schema, one optional, one that no schema declares.        *)
(***************************************************************************)
ValFields == {"theme", "text", "include_details", "mood"}
ValValues == {"str", "int", "bool"}
ValInputs == UNION {[D -> ValValues] : D \in SUBSET ValFields}

validate_request(handler, inputs) ==
    /\ resp' = [kind |-> "validated", handler |-> handler, inputs |-> inputs,
                accepted |-> validate_inputs(handler, inputs)]
    /\ UNCHANGED <<wfVars, system_logs, notWf>>

Validate == \E handler \in Handlers, inputs \in ValInputs :
                validate_request(handler, inputs)

NextVal == Validate

SpecVal == InitWf /\ [][NextVal]_vars

(***************************************************************************)
(*        PoemWorkflow: from the LLM's answer to the returned outputs      *)
(* The answer of the LLM is a text.  Whether json.loads accepts it (after  *)
(* the markdown fence is cut off) is `json`: "object" with the keys of     *)
(* `keys`, "other" for a JSON value that is no object, "invalid" for text  *)
(* that is no JSON.  The text is kept as its lines, and a line by what     *)
(* _fallback_parse looks for in it: "blank" (whitespace only), "titled"    *)
(* (holds one of the title markers), "note" (holds one of the skipped      *)
(* words), "titled_note" (holds both), "verse" (anything else).  A title   *)
(* is kept by where it comes from: "theme", a line of the "text", or the   *)
(* "json" object.                                                          *)
(***************************************************************************)
MaxLines == 3
MaxPoemLines == 20

LineKinds == {"verse", "blank", "titled", "note", "titled_note"}
PoemKeys == {"poem", "title", "analysis"}
ProseTexts ==
    {[json |-> "invalid", keys |-> {}, lines |-> l] :
        l \in UNION {[1..n -> LineKinds] : n \in 1..MaxLines}}
JsonTexts ==
    {[json |-> "object", keys |-> k, lines |-> <<"verse">>] : k \in SUBSET PoemKeys}
        \cup {[json |-> "other", keys |-> {}, lines |-> <<"verse">>]}
LlmTexts == ProseTexts \cup JsonTexts

HasMarker(line) == line \in {"titled", "titled_note"}
Skipped(line) == line \in {"note", "titled_note"}
NotBlank(line) == line # "blank"

RECURSIVE LStrip(_)
LStrip(lines) ==
    IF lines # <<>> /\ Head(lines) = "blank" THEN LStrip(Tail(lines)) ELSE lines

RECURSIVE RStrip(_)
RStrip(lines) ==
    IF lines # <<>> /\ lines[Len(lines)] = "blank"
    THEN RStrip(SubSeq(lines, 1, Len(lines) - 1))
    ELSE lines

\* text.strip().split('\n'): the blank lines at both ends go; the empty
\* string splits into one empty line.
StripSplit(lines) ==
    LET stripped == RStrip(LStrip(lines))
    IN  IF stripped = <<>> THEN <<"blank">> ELSE stripped

Take(s, n) == SubSeq(s, 1, IF Len(s) < n THEN Len(s) ELSE n)

\* PoemWorkflow._fallback_parse: the first line with a title marker becomes
\* the title and only the lines after it are kept; of these, the non-blank
\* lines without a skipped word, at most 20, are the poem.
fallback_parse(text) ==
    LET lines == StripSplit(text.lines)
        marked == {i \in 1..Len(lines) : HasMarker(lines[i])}
        first == CHOOSE i \in marked : \A j \in marked : i <= j
        rest == IF marked = {} THEN lines ELSE SubSeq(lines, first + 1, Len(lines))
        keep(line) == NotBlank(line) /\ ~Skipped(line)
    IN  [title |-> IF marked = {} THEN "theme" ELSE "text",
         poem |-> Take(SelectSeq(rest, keep), MaxPoemLines)]

\* PoemWorkflow._parse_poem_result: the object of the JSON answer, or what
\* _fallback_parse makes of the text; a missing key gets its default (the
\* whole answer for the poem, the theme for the title).  Any error on the
\* way (a JSON value without .get) ends in the basic format.
parse_poem_result(text) ==
    IF text.json = "other"
    THEN [title |-> "theme", poem |-> text.lines]
    ELSE IF text.json = "object"
    THEN [title |-> IF "title" \in text.keys THEN "json" ELSE "theme",
          poem |-> IF "poem" \in text.keys THEN <<"verse">> ELSE text.lines]
    ELSE fallback_parse(text)

\* PoemWorkflow.postprocess: the lines of the poem are stripped and the
\* blank ones dropped.
postprocess(outputs) ==
    [outputs EXCEPT !.poem = SelectSeq(@, NotBlank)]

\* One answer of the LLM taken through _parse_poem_result and postprocess.
poem_result(text) ==
    /\ resp' = [kind |-> "poem", text |-> text, raised |-> FALSE,
                outputs |-> postprocess(parse_poem_result(text))]
    /\ UNCHANGED <<wfVars, system_logs, notWf>>

ParsePoem == \E text \in LlmTexts : poem_result(text)

SpecPoem == InitWf /\ [][ParsePoem]_vars

(***************************************************************************)
(*          The rate limiter of utils/security.py on its own               *)
(* storage is the dictionary kept on the function object; a timestamp is   *)
(* the minute of the call.                                                 *)
(***************************************************************************)
MaxMinute == 2
MaxAttempts == 2

Identifiers == {"10.0.0.1", "10.0.0.2"}
AttemptLimits == {1, 2}
Windows == {1, 2}

RateTick ==
    /\ minute < MaxMinute
    /\ minute' = minute + 1
    /\ resp' = NoResp
    /\ UNCHANGED <<storage, recorded, notRate>>

Attempts(store, identifier) ==
    IF identifier \in DOMAIN store THEN store[identifier] ELSE <<>>

\* check_rate_limit: the timestamps at or before the start of the window of
\* this call are dropped from every key, the keys left without timestamps
\* are deleted, and the attempts of the identifier are counted.
check_rate_limit(identifier, max_attempts, window_minutes) ==
    LET window_start == minute - window_minutes
        recent(ts) == ts > window_start
        cleaned == [key \in DOMAIN storage |-> SelectSeq(storage[key], recent)]
        kept == [key \in {k \in DOMAIN cleaned : cleaned[k] # <<>>} |-> cleaned[key]]
        recent_attempts == SelectSeq(Attempts(kept, identifier), recent)
    IN  /\ storage' = kept
        /\ resp' = [kind |-> "rate_limit", identifier |-> identifier,
                    max_attempts |-> max_attempts,
                    window_minutes |-> window_minutes,
                    is_allowed |-> ~(Len(recent_attempts) >= max_attempts),
                    remaining |-> IF Len(recent_attempts) >= max_attempts THEN 0
                                  ELSE max_attempts - Len(recent_attempts)]
        /\ UNCHANGED <<minute, recorded, notRate>>

TotalRecorded(history) ==
    LET RECURSIVE Sum(_)
        Sum(ids) == IF ids = {} THEN 0
                    ELSE LET id == CHOOSE i \in ids : TRUE
                         IN  Len(history[id]) + Sum(ids \ {id})
    IN  Sum(DOMAIN history)

\* record_attempt: the time of the call is appended to the list of the
\* identifier.
record_attempt(identifier) ==
    /\ TotalRecorded(recorded) < MaxAttempts
    /\ storage' = IF identifier \in DOMAIN storage
                  THEN [storage EXCEPT ![identifier] = Append(@, minute)]
                  ELSE storage @@ (identifier :> <<minute>>)
    /\ recorded' = IF identifier \in DOMAIN recorded
                   THEN [recorded EXCEPT ![identifier] = Append(@, minute)]
                   ELSE recorded @@ (identifier :> <<minute>>)
    /\ resp' = [kind |-> "record_attempt", identifier |-> identifier]
    /\ UNCHANGED <<minute, notRate>>

CheckRateLimit ==
    \E identifier \in Identifiers, max_attempts \in AttemptLimits,
       window_minutes \in Windows :
        check_rate_limit(identifier, max_attempts, window_minutes)

RecordAttempt == \E identifier \in Identifiers : record_attempt(identifier)

NextRate ==
    \/ RateTick
    \/ CheckRateLimit
    \/ RecordAttempt

SpecRate == InitWf /\ [][NextRate]_vars

(***************************************************************************)
(*        The outputs of the handlers against their output schemas         *)
(* The outputs of a handler are kept as the set of their top-level keys.   *)
(* A request to the text analyzer is the type of its text, its             *)
(* analysis_type (one of the five of the schema's enum, "other" for any    *)
(* other string, Absent when the key is missing) and its include_details;  *)
(* a request to the poem handler is the type of its theme and the answer   *)
(* that the LLM gives.                                                     *)
(***************************************************************************)
Absent == "<absent>"
AnalysisTypes == {"basic", "keywords", "sentiment", "language", "full"}
TextTypes == {"str", "int"}

AnalyzerRequests ==
    [text : TextTypes,
     analysis_type : AnalysisTypes \cup {"other", Absent},
     include_details : {"true", "false", Absent}]
PoemRequests == [theme : TextTypes, answer : LlmTexts]

\* The inputs of a request as validate_inputs sees them: field -> type.
AnalyzerInputs(request) ==
    LET present == {"text"}
                   \cup (IF request.analysis_type # Absent THEN {"analysis_type"} ELSE {})
                   \cup (IF request.include_details # Absent THEN {"include_details"} ELSE {})
    IN  [f \in present |-> CASE f = "text" -> request.text
                             [] f = "analysis_type" -> "str"
                             [] f = "include_details" -> "bool"]
PoemInputs(request) == [f \in {"theme"} |-> request.theme]

\* PoemWorkflow.get_output_schema / TextAnalyzerWorkflow.get_output_schema,
\* top level.
get_output_schema(handler) ==
    IF handler = "PoemWorkflow"
    THEN [required |-> {"poem", "title"},
          properties |-> {"poem", "title", "analysis", "metadata"},
          additionalProperties |-> FALSE]
    ELSE [required |-> {"basic_stats", "summary"},
          properties |-> {"basic_stats", "keywords", "sentiment", "language",
                          "readability", "summary"},
          additionalProperties |-> FALSE]

\* TextAnalyzerWorkflow.execute: the parts of the result that the
\* analysis_type selects, and the summary.
analyzer_execute(request) ==
    LET analysis_type == IF request.analysis_type = Absent THEN "full"
                         ELSE request.analysis_type
        include_details == request.include_details \in {"true", Absent}
    IN  (IF analysis_type \in {"basic", "full"} THEN {"basic_stats"} ELSE {})
        \cup (IF analysis_type \in {"keywords", "full"} THEN {"keywords"} ELSE {})
        \cup (IF analysis_type \in {"sentiment", "full"} THEN {"sentiment"} ELSE {})
        \cup (IF analysis_type \in {"language", "full"} THEN {"language"} ELSE {})
        \cup (IF analysis_type = "full" /\ include_details THEN {"readability"} ELSE {})
        \cup {"summary"}

\* TextAnalyzerWorkflow.postprocess: the time of the analysis is added.
analyzer_postprocess(outputs) == outputs \cup {"analyzed_at"}

\* PoemWorkflow.execute and postprocess: both return statements of
\* _parse_poem_result build the same four keys, postprocess adds none.
poem_execute(request) == {"poem", "title", "analysis", "metadata"}

\* WorkflowManager.execute_workflow on a handler that does not fail:
\* validation, then preprocess, execute and postprocess; the final outputs
\* are returned as they are.
run_handler(handler, request, inputs, outputs) ==
    /\ resp' = IF validate_inputs(handler, inputs)
               THEN [kind |-> "outputs", handler |-> handler, request |-> request,
                     outcome |-> "success", outputs |-> outputs]
               ELSE [kind |-> "outputs", handler |-> handler, request |-> request,
                     outcome |-> "validation_error", outputs |-> {}]
    /\ UNCHANGED <<wfVars, system_logs, notWf>>

RunAnalyzer ==
    \E request \in AnalyzerRequests :
        run_handler("TextAnalyzerWorkflow", request, AnalyzerInputs(request),
                    analyzer_postprocess(analyzer_execute(request)))

RunPoem ==
    \E request \in PoemRequests :
        run_handler("PoemWorkflow", request, PoemInputs(request),
                    poem_execute(request))

NextOut ==
    \/ RunAnalyzer
    \/ RunPoem

SpecOut == InitWf /\ [][NextOut]_vars

(***************************************************************************)
(*                     Claims on the FastAPI login flow                    *)
(***************************************************************************)
LoginAccepted == resp.kind = "login" /\ resp.status = 200

\* C1: once a login presenting a daily code has succeeded, every later login
\* attempt presenting that same code is rejected.
C1_SingleUse == (resp.kind = "login" /\ resp.reused) => resp.status # 200

\* C2: issuing the daily code again on the same calendar day, with no
\* consumption in between, does not replace the code stored for an identity.
C2_IdempotentIssue ==
    [][\A u \in Usernames :
          ( /\ daily_codes[u] # NoCode
            /\ Date(daily_codes[u].generated_at) = Date(now')
            /\ <<u, daily_codes[u].code, daily_codes[u].generated_at>> \notin consumed' )
          => daily_codes'[u].code = daily_codes[u].code]_vars

\* C3: a code issued for calendar date D is rejected by every login attempt
\* made when the current date is D+1 or later.
C3_ExpiryByDate == LoginAccepted => Date(resp.gen_at) = Date(now)

C6_TokenOnlyIfValid ==
    LoginAccepted =>
        /\ validate_user(resp.user)
        /\ daily_codes[resp.user] # NoCode
        /\ Date(resp.gen_at) = Date(now)
        /\ ~resp.reused

(***************************************************************************)
(*                       Claims on the token stores                        *)
(***************************************************************************)
Elapsed(t) == now - t

\* C4 (as stated): for a stored token, verify returns the owner identity if
\* and only if (now - issued_at) < 24h; at 24h and later it returns none.
C4_TokenTTL_AsStated ==
    /\ resp.kind = "verify" =>
          \A r \in active_tokens : r.token = resp.token =>
             (resp.result = r.username <=> Elapsed(r.issued_at) < Hours24)
    /\ resp.kind = "validate_session" =>
          \A r \in user_sessions : r.token = resp.token =>
             (resp.result = r.username <=> Elapsed(r.created_at) < Hours24)

\* C4 (amended): for a stored token that has not been invalidated, verify
\* returns the owner identity if and only if (now - issued_at) < 24h; at 24h
\* and later, and for an invalidated session, it returns none.
C4_TokenTTL ==
    /\ resp.kind = "verify" =>
          /\ \A r \in active_tokens : r.token = resp.token =>
                /\ resp.result = r.username <=> Elapsed(r.issued_at) < Hours24
                /\ Elapsed(r.issued_at) >= Hours24 => resp.result = NoUser
          /\ (\A r \in active_tokens : r.token # resp.token) => resp.result = NoUser
    /\ resp.kind = "validate_session" =>
          /\ \A r \in user_sessions : r.token = resp.token =>
                /\ resp.result = r.username
                      <=> (r.is_active /\ Elapsed(r.created_at) < Hours24)
                /\ (~r.is_active \/ Elapsed(r.created_at) >= Hours24)
                      => resp.result = NoUser
          /\ (\A r \in user_sessions : r.token # resp.token) => resp.result = NoUser

C4_Witness ==
    /\ resp.kind = "verify"
    /\ resp.result = NoUser
    /\ \E r \in active_tokens : r.token = resp.token /\ Elapsed(r.issued_at) = Hours24

(***************************************************************************)
(*                       Claims on the Flask service                       *)
(***************************************************************************)
\* C7: at any time at most one daily code is valid for a calendar date, also
\* when the code is issued by concurrent requests: no two unused rows of the
\* same date hold different codes.
C7_OneCodePerDate ==
    \A r1, r2 \in code_rows :
        (r1.date = r2.date /\ ~r1.is_used /\ ~r2.is_used) => r1.code = r2.code

\* C8: of the logins that present one daily code, concurrent ones included,
\* at most one succeeds: no row of daily_codes lets in more than one login.
C8_AtMostOneLogin == \A id \in DOMAIN uses : uses[id] <= 1

(***************************************************************************)
(*                     Claims on workflow execution                        *)
(***************************************************************************)
ValidationRejected == resp.kind = "execute" /\ resp.outcome = "validation_error"

\* C9: a step that answers a workflow execution with a validation error
\* creates or changes no execution record, invokes no handler and leaves the
\* running stats as they were.
C9_ValidationFirst ==
    [][ValidationRejected' =>
          /\ workflow_calls' = workflow_calls
          /\ workflow_executions' = workflow_executions
          /\ handler_calls' = handler_calls
          /\ execution_stats' = execution_stats]_vars

\* C10: for every registered workflow the average execution time is the
\* total execution time divided by the number of executions, and 0 while
\* nothing was executed.
C10_AverageDerived ==
    \A n \in DOMAIN execution_stats :
        LET s == execution_stats[n]
        IN  IF s.total_executions > 0
            THEN s.average_execution_time =
                     Quotient(s.total_execution_time, s.total_executions)
            ELSE s.average_execution_time = 0

C10_Witness ==
    \E n \in DOMAIN execution_stats :
        /\ execution_stats[n].total_executions = 2
        /\ execution_stats[n].successful_executions = 1
        /\ execution_stats[n].total_execution_time = 4
        /\ resp.kind = "execute" /\ resp.outcome = "execution_error"

Rejected(outcome) == resp.kind = "execute" /\ resp.outcome = outcome

\* C11: a step that answers an execution with "workflow not found" creates
\* no execution record, invokes no handler and changes no workflow's stats
\* (nor anything else of the dispatchers' state).
C11_NotFoundNoEffect ==
    [][Rejected("not_found")' => UNCHANGED <<wfVars, system_logs>>]_vars

C11_Witness ==
    /\ Rejected("not_found")
    /\ resp.variant = "manager"
    /\ handler_calls > 0
    /\ workflow_calls # {}

\* C12: a register step for a name that is already registered leaves the
\* handler registered under that name and its accumulated stats unchanged.
C12_RegisterKeepsExisting ==
    [][resp'.kind = "register" =>
          \A n \in DOMAIN workflows :
              /\ workflows'[n] = workflows[n]
              /\ execution_stats'[n] = execution_stats[n]]_vars

\* C13: a step that ends an execution with the handler's error records
\* exactly one execution record with status failed; in the manager it also
\* raises total_executions by one and leaves successful_executions alone.
C13_HandlerFailureRecorded ==
    [][Rejected("execution_error")' =>
          \/ /\ resp'.variant = "manager"
             /\ \E row \in {ExecutionRow(resp'.name, "failed")} :
                    workflow_executions' = Append(workflow_executions, row)
             /\ resp'.name \in DOMAIN execution_stats
             /\ execution_stats'[resp'.name].total_executions =
                    execution_stats[resp'.name].total_executions + 1
             /\ execution_stats'[resp'.name].successful_executions =
                    execution_stats[resp'.name].successful_executions
          \/ /\ resp'.variant = "flask"
             /\ \E r \in workflow_calls :
                    /\ r.status = "pending"
                    /\ workflow_calls' = (workflow_calls \ {r})
                                            \cup {[r EXCEPT !.status = "failed"]}]_vars

(***************************************************************************)
(*                      Claims on input validation                         *)
(***************************************************************************)
JsonType(value) ==
    CASE value \in {"str", "empty", "long"} -> "string"
      [] value = "int" -> "integer"
      [] value = "float" -> "number"
      [] value = "bool" -> "boolean"
      [] value = "list" -> "array"
      [] value = "dict" -> "object"

HasDeclaredType(value, type) ==
    \/ JsonType(value) = type
    \/ type = "number" /\ JsonType(value) = "integer"

\* C14: validation accepts the inputs if and only if every required field
\* is present, every present field that the schema declares has a value of
\* the declared type, and no undeclared field is present when the schema
\* sets additionalProperties to false.
C14_ValidationIff ==
    resp.kind = "validated" =>
        LET schema == get_input_schema(resp.handler)
            inputs == resp.inputs
        IN  resp.accepted <=>
              /\ \A f \in schema.required : f \in DOMAIN inputs
              /\ \A f \in DOMAIN inputs \cap DOMAIN schema.properties :
                    HasDeclaredType(inputs[f], schema.properties[f])
              /\ ~schema.additionalProperties =>
                    DOMAIN inputs \subseteq DOMAIN schema.properties

(***************************************************************************)
(*                  Claims on login responses and audit                    *)
(***************************************************************************)
FlaskRejected == resp.kind = "flask_login" /\ resp.status = 401

\* C15: two rejected logins get the same response whatever the reason of
\* the rejection: a rejection that follows a rejection carries the same
\* status and the same message.
C15_OpaqueRejection ==
    [][(FlaskRejected /\ FlaskRejected') =>
          /\ resp'.status = resp.status
          /\ resp'.error = resp.error]_vars

\* C16: every step that completes a login attempt appends one audit entry
\* naming the identity of the attempt, and the entry says success exactly
\* when the attempt succeeded.
C16_EveryAttemptAudited ==
    [][(resp'.kind = "flask_login" /\ (resp' # resp \/ system_logs' # system_logs)) =>
          \E level \in {"INFO", "WARN", "ERROR"} :
              /\ system_logs' = Append(system_logs, SysLog(level, resp'.user))
              /\ (level = "INFO") <=> (resp'.status = 200)]_vars

\* C17: a login with valid user, password and code whose only failing step
\* is the write of its log entry is not answered with an internal error.
C17_LogFailureHarmless ==
    ~(resp.kind = "flask_login" /\ resp.row # 0 /\ resp.cause = "log"
        /\ resp.status = 500)

(***************************************************************************)
(*                     Claims on execution records                         *)
(***************************************************************************)
IsPrefix(s, t) == Len(s) <= Len(t) /\ SubSeq(t, 1, Len(s)) = s

\* C18: in every step, each workflow_calls row is kept, with its status
\* either unchanged or changed from pending to success or failed, and the
\* rows of workflow_executions are only appended to.
C18_RecordsFinalizedOnce ==
    [][/\ \A r \in workflow_calls :
            \E q \in workflow_calls' :
                /\ q.id = r.id
                /\ q.workflow_type = r.workflow_type
                /\ \/ q.status = r.status
                   \/ r.status = "pending" /\ q.status \in {"success", "failed"}
       /\ IsPrefix(workflow_executions, workflow_executions')]_vars

C18_Witness ==
    /\ \E r \in workflow_calls : r.status = "success"
    /\ \E r \in workflow_calls : r.status = "failed"
    /\ resp.kind = "execute" /\ resp.variant = "flask"
    /\ resp.outcome = "execution_error"

(***************************************************************************)
(*                 More claims on the token stores                         *)
(***************************************************************************)
Issued(sessions) ==
    {[token |-> r.token, username |-> r.username, created_at |-> r.created_at,
      is_active |-> r.is_active] : r \in sessions}

\* C19: a step that verifies a token (verify_token of the token file,
\* validate_session of the session table), whatever its answer, leaves the
\* stored tokens, their owners and their issuance times as they were.
C19_VerifyReadOnly ==
    [][resp'.kind \in {"verify", "validate_session"} =>
          /\ active_tokens' = active_tokens
          /\ Issued(user_sessions') = Issued(user_sessions)]_vars

C19_Witness ==
    /\ resp.kind = "validate_session"
    /\ resp.result # NoUser
    /\ \E r \in user_sessions :
          r.token = resp.token /\ r.last_active > r.created_at

\* C20: a token of the session table that validate_session rejects (it
\* expired or was invalidated) is still rejected after any further step.
C20_NoResurrection ==
    [][\A token \in TokenIds :
          ( /\ \E r \in user_sessions : r.token = token
            /\ SessionLookup(user_sessions, token, now) = NoUser )
          => SessionLookup(user_sessions', token, now') = NoUser]_vars

(***************************************************************************)
(*                     Claims on the poem handler                          *)
(***************************************************************************)
\* C21: for every answer of the LLM that is present but no valid JSON, the
\* poem handler does not raise and returns a poem that is a non-empty
\* string and a title derived from the theme.
C21_ProseStillPoem ==
    ( /\ resp.kind = "poem"
      /\ resp.text.json = "invalid"
      /\ \E i \in 1..Len(resp.text.lines) : NotBlank(resp.text.lines[i]) ) =>
        /\ ~resp.raised
        /\ resp.outputs.poem # <<>>
        /\ resp.outputs.title = "theme"

(***************************************************************************)
(*                 Claims on concurrent token issuance                     *)
(***************************************************************************)
\* C22: when login requests interleave at the suspension points of the
\* token save, no issued token is lost: a step that returns a token to a
\* client leaves every token that verify accepted before it in the store,
\* still accepted for its owner.
C22_NoTokenLost ==
    [][LoginAccepted' =>
          \A r \in active_tokens :
              verify_token(active_tokens, r.token, now) = r.username
                  => verify_token(active_tokens', r.token, now') = r.username]_vars

(***************************************************************************)
(*                 Claims on the pending execution record                  *)
(***************************************************************************)
\* C23: while the handler of an execution that passed validation is
\* running, a record in state pending for that execution is persisted, so
\* that a crash during the handler leaves a pending record.
C23_PendingBeforeHandler ==
    \A e \in Slots :
        wpc[e] = "running" =>
            \/ /\ wreq[e].variant = "flask"
               /\ \E r \in workflow_calls :
                      r.id = wreq[e].call /\ r.status = "pending"
            \/ /\ wreq[e].variant = "manager"
               /\ \E i \in 1..Len(workflow_executions) :
                      workflow_executions[i] = ExecutionRow(wreq[e].name, "pending")

(***************************************************************************)
(*                 Claims on the daily-code generator task                 *)
(***************************************************************************)
\* The backoff of 60 seconds, in ticks: the retry is due within the tick of
\* the failure.
Backoff == 0

\* A turn of the generator task (it sets its next wake-up) whose generation
\* attempt failed: the codes were not valid for today and still are not.
GenerationFailed ==
    /\ genWake' # genWake
    /\ ~has_today_valid_codes(daily_codes, now)
    /\ ~has_today_valid_codes(daily_codes', now')

\* C24: when a generation attempt of the background task fails, the task
\* goes on and its next attempt is due one backoff interval after the
\* failure.
C24_RetryAfterBackoff ==
    [][GenerationFailed => genWake' <= now' + Backoff]_vars

(***************************************************************************)
(*                     Claims on the running stats                         *)
(***************************************************************************)
\* C25: for each workflow name, total_executions, successful_executions and
\* total_execution_time never decrease: no step lowers one of them for a
\* name that has stats before and after the step.
C25_StatsMonotone ==
    [][\A n \in DOMAIN execution_stats \cap DOMAIN execution_stats' :
          /\ execution_stats'[n].total_executions
                >= execution_stats[n].total_executions
          /\ execution_stats'[n].successful_executions
                >= execution_stats[n].successful_executions
          /\ execution_stats'[n].total_execution_time
                >= execution_stats[n].total_execution_time]_vars

(***************************************************************************)
(*                     Claims on the expiry sweep                          *)
(***************************************************************************)
\* C26: after an expiry sweep (the one of save_access_token on the token
\* file, cleanup_expired_sessions on the session table) the store holds no
\* token whose age has reached 24 hours, and the sweep has removed no token
\* whose age is below 24 hours.
C26_SweepExact ==
    [][/\ resp'.kind = "save" =>
            /\ \A r \in active_tokens' :
                  verify_token(active_tokens', r.token, now') = r.username
            /\ \A r \in active_tokens :
                  (now' - r.issued_at < Hours24 /\ r.token # resp'.token)
                      => r \in active_tokens'
       /\ resp'.kind = "cleanup_expired_sessions" =>
            /\ \A r \in user_sessions' : now' - r.created_at < Hours24
            /\ \A r \in user_sessions :
                  now' - r.created_at < Hours24 => r \in user_sessions']_vars

(***************************************************************************)
(*                     Claims on code delivery                             *)
(***************************************************************************)
\* C27: a code is mailed only after it was persisted: the code last mailed
\* to a user for a day is the code stored for that user for that day, also
\* when the mail to another user or the write of the file failed.
C27_MailedIsStored ==
    \A u \in Usernames :
        mailbox[u] # NoCode =>
            /\ daily_codes[u].code = mailbox[u].code
            /\ Date(daily_codes[u].generated_at) = Date(mailbox[u].generated_at)

(***************************************************************************)
(*                  Claims on the consumption of a code                    *)
(***************************************************************************)
\* C28: a daily code is marked used only by a login that returns a token:
\* every row of daily_codes that is marked used has let a login in.
C28_UsedOnlyBySuccess ==
    \A r \in code_rows : r.is_used => (r.id \in DOMAIN uses /\ uses[r.id] >= 1)

(***************************************************************************)
(*                     Claims on the rate limiter                          *)
(***************************************************************************)
\* The attempts recorded for the identifier within the last window_minutes
\* minutes.
RecordedWithin(identifier, window_minutes) ==
    LET inWindow(ts) == ts > minute - window_minutes
    IN  Len(SelectSeq(Attempts(recorded, identifier), inWindow))

\* C29: check_rate_limit(id, max_attempts, window) answers (False, 0)
\* exactly when at least max_attempts attempts were recorded for id within
\* the last window minutes, and (True, max_attempts - that count) otherwise,
\* whatever calls were made before, also for other identifiers, limits and
\* windows.
C29_RateLimitByRecorded ==
    resp.kind = "rate_limit" =>
        LET count == RecordedWithin(resp.identifier, resp.window_minutes)
        IN  IF count >= resp.max_attempts
            THEN ~resp.is_allowed /\ resp.remaining = 0
            ELSE resp.is_allowed /\ resp.remaining = resp.max_attempts - count

(***************************************************************************)
(*                     Claims on the output schemas                        *)
(***************************************************************************)
\* C30: the outputs of a successful execution on inputs accepted by
\* validation hold every field that the handler's output schema requires
\* and, where the schema sets additionalProperties to false, no top-level
\* field outside the schema's properties.
C30_OutputsConform ==
    (resp.kind = "outputs" /\ resp.outcome = "success") =>
        LET schema == get_output_schema(resp.handler)
        IN  /\ schema.required \subseteq resp.outputs
            /\ ~schema.additionalProperties => resp.outputs \subseteq schema.properties

====
